---- MODULE Spec2Model ----
(***************************************************************************)
(* Upper Confidence Bound multi-armed bandit (multiarm-bandits/ucb.py).    *)
(*                                                                         *)
(* The selector's fields are the variables; __init__, play and update are  *)
(* the actions.  numpy's float64 values are modelled as exact rationals    *)
(* n/d plus an exploration bonus b kept in units of 1/SCALE, together with *)
(* the IEEE special values +inf, -inf and nan, whose arithmetic            *)
(* (inf * 0 = nan, x / 0 = +-inf or nan, nan never equal to anything) is   *)
(* what decides several properties of this code.                           *)
(***************************************************************************)
EXTENDS Integers, Sequences, FiniteSets

\* ---------------------------------------------------------------- bounds
MaxArms == 2
MaxRound == 3
MaxCalls == 4
MaxPairs == 3

\* Resolution of the fixed-point exploration bonus: b stands for b / SCALE.
SCALE == 10000

\* ------------------------------------------------------ float64 values
Fin(n, d) == [k |-> "fin", n |-> n, d |-> d, b |-> 0]
PosInf == [k |-> "inf", n |-> 0, d |-> 1, b |-> 0]
NegInf == [k |-> "ninf", n |-> 0, d |-> 1, b |-> 0]
NaN == [k |-> "nan", n |-> 0, d |-> 1, b |-> 0]

Abs(x) == IF x < 0 THEN -x ELSE x

RECURSIVE Gcd(_, _)
Gcd(x, y) == IF y = 0 THEN x ELSE Gcd(y, x % y)

\* The rational n/d in lowest terms with a positive denominator (d # 0).
Norm(n, d) ==
    LET g == Gcd(Abs(n), Abs(d))
        s == IF d < 0 THEN -1 ELSE 1
    IN Fin((s * n) \div g, (s * d) \div g)

\* float64 * int (ucb.py:114-115, Q_mu[arm] * (num_times_arm[arm] - 1)).
FMul(v, i) ==
    CASE v.k = "nan" -> NaN
      [] v.k = "inf" -> IF i > 0 THEN PosInf ELSE IF i < 0 THEN NegInf ELSE NaN
      [] v.k = "ninf" -> IF i > 0 THEN NegInf ELSE IF i < 0 THEN PosInf ELSE NaN
      [] OTHER -> Norm(v.n * i, v.d)

\* float64 + reward (ucb.py:115, ... + reward); the reward is an integer.
FAdd(v, r) ==
    IF v.k = "fin" THEN Norm(v.n + r * v.d, v.d) ELSE v

\* float64 / int (ucb.py:115, ... / num_times_arm[arm]): numpy divides by
\* zero without raising: x/0 is +inf or -inf by the sign of x, 0/0 is nan.
FDiv(v, i) ==
    CASE v.k = "nan" -> NaN
      [] v.k = "inf" -> IF i >= 0 THEN PosInf ELSE NegInf
      [] v.k = "ninf" -> IF i >= 0 THEN NegInf ELSE PosInf
      [] OTHER -> IF i # 0 THEN Norm(v.n, v.d * i)
                  ELSE IF v.n > 0 THEN PosInf
                  ELSE IF v.n < 0 THEN NegInf ELSE NaN

\* floor(SCALE * log10(k)) for k = 1..10 (np.log10, ucb.py:120).
Log10Table == <<0, 3010, 4771, 6020, 6989, 7781, 8450, 9030, 9542, 10000>>

RECURSIVE SqrtIter(_, _, _)
SqrtIter(lo, hi, v) ==
    IF lo >= hi THEN lo
    ELSE LET mid == (lo + hi + 1) \div 2
         IN IF mid * mid <= v THEN SqrtIter(mid, hi, v)
            ELSE SqrtIter(lo, mid - 1, v)

\* floor(sqrt(v)) for 0 <= v < (2 * SCALE)^2.
ISqrt(v) == SqrtIter(0, 2 * SCALE, v)

\* np.sqrt(rho * np.log10(N + 1) / n) + mu (ucb.py:119-122), for n > 0:
\* the square root of a negative number is nan.
Score(mu, rh, N, n) ==
    LET rad == rh * Log10Table[N + 1] * SCALE
    IN IF rad < 0 \/ mu.k = "nan" THEN NaN
       ELSE IF mu.k # "fin" THEN mu
       ELSE [mu EXCEPT !.b = ISqrt(rad \div n)]

\* Numeric order of two values neither of which is nan.
Rank(v) == CASE v.k = "ninf" -> 0 [] v.k = "fin" -> 1 [] v.k = "inf" -> 2 [] OTHER -> 3
Scaled(v, w) == (v.n * SCALE + v.b * v.d) * w.d
FLeq(v, w) ==
    IF v.k = "fin" /\ w.k = "fin" THEN Scaled(v, w) <= Scaled(w, v)
    ELSE Rank(v) <= Rank(w)

\* ------------------------------------------------------- call arguments
NarmsArgs == -1 .. MaxArms
RhoArgs == {-1, 0, 1}
Q0Args == {PosInf, Fin(1, 1)}
Rounds == 1 .. MaxRound
Rewards == {-1, 0, 1}
\* 1-indexed arm ids a caller may pass to update, in and out of [1, narms].
ArmArgs(n) == {-n, 0} \cup (1 .. (n + 1))

\* ----------------------------------------------------------------- state
VARIABLES
    live,           \* a selector has been constructed
    narms,          \* self.narms
    rho,            \* self.rho
    Q0,             \* self.Q0
    Q,              \* self.Q: score per 0-indexed arm
    Q_mu,           \* self.Q_mu: mean reward per 0-indexed arm
    arm_at_t,       \* self.arm_at_t: round -> 0-indexed arm
    reward_at_t,    \* self.reward_at_t: the reward log
    num_times_arm,  \* self.num_times_arm: 0-indexed arm -> pull count
    trace           \* the calls made so far, with their outcomes

fields == <<narms, rho, Q0, Q, Q_mu, arm_at_t, reward_at_t, num_times_arm>>
vars == <<live, narms, rho, Q0, Q, Q_mu, arm_at_t, reward_at_t, num_times_arm, trace>>

Arms == 0 .. (narms - 1)
Empty == [x \in {} |-> 0]

\* One entry of the trace: the call, its arguments, how it ended ("ok" or
\* the exception raised) and what it returned (0: nothing).
Call(op, arg, reward, outcome, ret) ==
    [op |-> op, arg |-> arg, reward |-> reward, outcome |-> outcome, ret |-> ret]

Init ==
    /\ live = FALSE
    /\ narms = 0
    /\ rho = 0
    /\ Q0 = PosInf
    /\ Q = Empty
    /\ Q_mu = Empty
    /\ arm_at_t = Empty
    /\ reward_at_t = <<>>
    /\ num_times_arm = Empty
    /\ trace = <<>>

\* UCB(n, rh, q): np.zeros raises ValueError on a negative length, and then
\* no selector comes to exist; nothing else about the arguments is checked.
Construct(n, rh, q) ==
    /\ ~live
    /\ IF n < 0
       THEN /\ trace' = Append(trace, Call("init", n, 0, "ValueError", 0))
            /\ UNCHANGED <<live, fields>>
       ELSE /\ live' = TRUE
            /\ narms' = n
            /\ Q0' = q
            /\ rho' = rh
            /\ Q' = [a \in 0 .. (n - 1) |-> Fin(0, 1)]
            /\ Q_mu' = [a \in 0 .. (n - 1) |-> q]
            /\ arm_at_t' = Empty
            /\ reward_at_t' = <<>>
            /\ num_times_arm' = Empty
            /\ trace' = Append(trace, Call("init", n, 0, "ok", 0))

\* The indices np.random.choice may draw from np.flatnonzero(a == a.max()).
\* a.max() is nan as soon as one entry is nan, and nan equals no entry, so
\* the set is then empty; np.random.choice raises ValueError on an empty set,
\* as a.max() does on an empty array.
argmax_rand(a) ==
    IF \E i \in DOMAIN a : a[i].k = "nan" THEN {}
    ELSE {i \in DOMAIN a : \A j \in DOMAIN a : FLeq(a[j], a[i])}

\* Faults of the pull counter: the count put back to 1, and the +1 left out.
IncrementedReset(cnt, a) ==
    [x \in DOMAIN cnt \cup {a} |-> IF x = a THEN 1 ELSE cnt[x]]

NotIncremented(cnt, a) ==
    [x \in DOMAIN cnt \cup {a} |-> IF x \in DOMAIN cnt THEN cnt[x] ELSE 0]

\* dict.setdefault(key, 0) + 1 stored under key.
Incremented(cnt, a) ==
    IF a \in DOMAIN cnt THEN [cnt EXCEPT ![a] = @ + 1]
    ELSE [x \in DOMAIN cnt \cup {a} |-> IF x = a THEN 1 ELSE cnt[x]]

\* The counters after the reset for a re-issued round (ucb.py:78-82).
Reversed(cnt, hist, tround) ==
    IF tround \in DOMAIN hist
    THEN [cnt EXCEPT ![hist[tround]] = @ - 1]
    ELSE cnt

\* A fault of the history: the arm stored under its own index, not the round.
RecordedByArm(hist, tround, a) ==
    [t \in DOMAIN hist \cup {a} |-> IF t = a THEN a ELSE hist[t]]

\* arm_at_t[tround] = a
Recorded(hist, tround, a) ==
    [t \in DOMAIN hist \cup {tround} |-> IF t = tround THEN a ELSE hist[t]]

\* A fault of play: the scores refreshed for the new counts at selection time.
playRescoring(tround) ==
    /\ live
    /\ LET cnt == Reversed(num_times_arm, arm_at_t, tround)
           cand == argmax_rand(Q)
       IN IF cand = {}
          THEN /\ num_times_arm' = cnt
               /\ arm_at_t' = arm_at_t
               /\ Q' = Q
               /\ trace' = Append(trace, Call("play", tround, 0, "ValueError", 0))
          ELSE \E a \in cand :
               /\ arm_at_t' = Recorded(arm_at_t, tround, a)
               /\ num_times_arm' = Incremented(cnt, a)
               /\ Q' = [x \in DOMAIN Q |->
                          IF x = a /\ Q_mu[x].k = "fin"
                          THEN Score(Q_mu[x], rho, Cardinality(DOMAIN arm_at_t'),
                                     num_times_arm'[x])
                          ELSE Q[x]]
               /\ trace' = Append(trace, Call("play", tround, 0, "ok", a + 1))
    /\ UNCHANGED <<live, narms, rho, Q0, Q_mu, reward_at_t>>

play(tround) ==
    /\ live
    /\ LET cnt == Reversed(num_times_arm, arm_at_t, tround)
           cand == argmax_rand(Q)
       IN IF cand = {}
          THEN \* argmax_rand raised: the reset above has already happened
               /\ num_times_arm' = cnt
               /\ arm_at_t' = arm_at_t
               /\ trace' = Append(trace, Call("play", tround, 0, "ValueError", 0))
          ELSE \E a \in cand :
               /\ arm_at_t' = Recorded(arm_at_t, tround, a)
               /\ num_times_arm' = Incremented(cnt, a)
               /\ trace' = Append(trace, Call("play", tround, 0, "ok", a + 1))
    /\ UNCHANGED <<live, narms, rho, Q0, Q, Q_mu, reward_at_t>>

\* A fault of the running mean: the old mean weighted by n, not n - 1.
NewMeanBlended(mu, n, reward) == FDiv(FAdd(FMul(mu, n), reward), n + 1)

\* The running mean of ucb.py:113-115.
NewMean(mu, n, reward) == FDiv(FAdd(FMul(mu, n - 1), reward), n)

\* A fault of the score loop: len(arm_at_t) taken without its + 1.
RescoredOffByOne(q, mu, cnt, rh, N) ==
    [a \in DOMAIN q |->
        IF a \in DOMAIN cnt /\ cnt[a] > 0 THEN Score(mu[a], rh, N - 1, cnt[a]) ELSE q[a]]

\* The scores after the loop of ucb.py:117-122 over the keys of num_times_arm.
Rescored(q, mu, cnt, rh, N) ==
    [a \in DOMAIN q |->
        IF a \in DOMAIN cnt /\ cnt[a] > 0 THEN Score(mu[a], rh, N, cnt[a]) ELSE q[a]]

\* numpy indexing: -len <= i < len, negative indices counting from the end.
InArray(i, len) == -len <= i /\ i < len
\* A fault of the array index: the 1-indexed arm used without arm -= 1.
WrapShifted(i, len) == (i + 1) % len

Wrap(i, len) == IF i < 0 THEN i + len ELSE i

\* A fault of the counter lookup: the key wrapped as the array index is.
CountKeyWrapped(i, len) == Wrap(i, len)

\* The key num_times_arm is read under: a dict takes the index as it is.
CountKey(i, len) == i

update(arm, reward) ==
    /\ live
    /\ LET a == arm - 1
       IN /\ reward_at_t' = Append(reward_at_t, reward)
          /\ IF ~InArray(a, narms)
             THEN \* self.Q_mu[arm] raised
                  /\ trace' = Append(trace, Call("update", arm, reward, "IndexError", 0))
                  /\ UNCHANGED <<Q, Q_mu>>
             ELSE IF CountKey(a, narms) \notin DOMAIN num_times_arm
             THEN \* self.num_times_arm[arm] raised
                  /\ trace' = Append(trace, Call("update", arm, reward, "KeyError", 0))
                  /\ UNCHANGED <<Q, Q_mu>>
             ELSE LET mu == [Q_mu EXCEPT ![Wrap(a, narms)] =
                                NewMean(@, num_times_arm[CountKey(a, narms)], reward)]
                  IN /\ Q_mu' = mu
                     /\ Q' = Rescored(Q, mu, num_times_arm, rho, Cardinality(DOMAIN arm_at_t))
                     /\ trace' = Append(trace, Call("update", arm, reward, "ok", 0))
    /\ UNCHANGED <<live, narms, rho, Q0, arm_at_t, num_times_arm>>

\* ------------------------------------------------------- specifications
\* Any caller: any arguments, any order of calls.
DoConstruct ==
    /\ Len(trace) < MaxCalls
    /\ \E n \in NarmsArgs, rh \in RhoArgs, q \in Q0Args : Construct(n, rh, q)

DoPlay ==
    /\ Len(trace) < MaxCalls
    /\ \E t \in Rounds : play(t)

DoUpdate ==
    /\ Len(trace) < MaxCalls
    /\ \E arm \in ArmArgs(narms), r \in Rewards : update(arm, r)

Next == DoConstruct \/ DoPlay \/ DoUpdate

Spec == Init /\ [][Next]_vars

\* The two-phase protocol of a round-driving harness: a selector built with
\* a positive number of arms and a positive rho, then play, then update for
\* the arm that play returned, round after round.
Last == trace[Len(trace)]
Completed == {i \in 1 .. Len(trace) : trace[i].op = "update" /\ trace[i].outcome = "ok"}

RunConstruct ==
    /\ trace = <<>>
    /\ \E n \in 1 .. MaxArms, q \in Q0Args : Construct(n, 1, q)

RunPlay ==
    /\ trace # <<>>
    /\ ~(Last.op = "play" /\ Last.outcome = "ok")
    /\ Cardinality(Completed) < MaxPairs
    /\ Len(trace) < 2 * MaxPairs + 2
    /\ \E t \in Rounds : play(t)

RunUpdate ==
    /\ trace # <<>>
    /\ Last.op = "play"
    /\ Last.outcome = "ok"
    /\ \E r \in Rewards : update(Last.ret, r)

NextRun == RunConstruct \/ RunPlay \/ RunUpdate

SpecRun == Init /\ [][NextRun]_vars

\* ------------------------------------------------- reading state and trace
\* pullCount of an arm: an arm without a key has no pull.
Count(a) == IF a \in DOMAIN num_times_arm THEN num_times_arm[a] ELSE 0

RECURSIVE SumOver(_, _)
SumOver(f, S) ==
    IF S = {} THEN 0
    ELSE LET x == CHOOSE y \in S : TRUE IN f[x] + SumOver(f, S \ {x})

SumCounts == SumOver(num_times_arm, DOMAIN num_times_arm)

\* Rounds whose recorded arm is a.
RoundsOf(a) == {t \in DOMAIN arm_at_t : arm_at_t[t] = a}

PlayCalls == {i \in 1 .. Len(trace) : trace[i].op = "play"}
\* No round number was passed to play twice.
NoReissue == \A i, j \in PlayCalls : trace[i].arg = trace[j].arg => i = j
\* The selector was built with arguments the interface allows.
ValidArgs == live /\ narms >= 1 /\ rho > 0
LastIs(op) == trace # <<>> /\ Last.op = op
\* The score of arm a is a number and no arm's score is above it.
MaxScore(a) == \A j \in Arms : Q[j].k # "nan" /\ FLeq(Q[j], Q[a])

\* ----------------------------------------------------------------- claims
\* C1: every play call returns exactly one arm, the arm is in [1, narms], its
\* score is the maximum over all arms, and every arm tied for the maximum is a
\* possible return value.
C1_PlayReturnsArgmax ==
    /\ (ValidArgs /\ LastIs("play")) =>
          /\ Last.outcome = "ok"
          /\ Last.ret \in 1 .. narms
          /\ MaxScore(Last.ret - 1)
    /\ ValidArgs =>
          \A a \in Arms : MaxScore(a) =>
              ENABLED (play(1) /\ trace'[Len(trace')].ret = a + 1)

\* C2: with Q0 = +infinity, the first narms plays on distinct rounds, each
\* followed by update for the returned arm, all return an arm, and the arms
\* they return are pairwise distinct.
C2_FirstPlaysVisitEveryArm ==
    (live /\ Q0 = PosInf /\ NoReissue /\ Cardinality(PlayCalls) <= narms) =>
        \A i, j \in PlayCalls :
            /\ trace[i].outcome = "ok"
            /\ (i # j => trace[i].ret # trace[j].ret)

\* C3: for every arm, pullCount[arm] is the number of rounds whose recorded
\* arm is that arm, so the sum of pullCount is the number of rounds played.
C3_CountIsRoundsRecorded ==
    ValidArgs =>
        /\ \A a \in Arms : Count(a) = Cardinality(RoundsOf(a))
        /\ SumCounts = Cardinality(DOMAIN arm_at_t)

\* The rewards of the completed updates of 0-indexed arm a, summed and counted.
UpdatesOf(a) == {i \in Completed : trace[i].arg = a + 1}
RECURSIVE RewardSum(_)
RewardSum(S) ==
    IF S = {} THEN 0
    ELSE LET i == CHOOSE y \in S : TRUE IN trace[i].reward + RewardSum(S \ {i})

\* C4: for every Q0, when an arm is chosen in k distinct rounds and each of
\* those plays is followed by its update, meanReward[arm] after the k-th
\* update is the arithmetic mean of the k rewards.
C4_MeanIsArithmeticMean ==
    (live /\ NoReissue /\ LastIs("update")) =>
        \A a \in Arms : UpdatesOf(a) # {} =>
            Q_mu[a] = Norm(RewardSum(UpdatesOf(a)), Cardinality(UpdatesOf(a)))

\* C5 (as stated): after every completed update of a protocol run, round
\* numbers possibly repeated, the sum of pullCount is the number of updates
\* completed so far.
C5_SumIsUpdatesDone ==
    (live /\ LastIs("update")) => SumCounts = Cardinality(Completed)

\* C5 (amended): after every completed update of a protocol run in which no
\* round number was played twice, the sum of pullCount is the number of
\* updates completed so far.
C5_SumIsUpdatesDoneFreshRounds ==
    (live /\ LastIs("update") /\ NoReissue) => SumCounts = Cardinality(Completed)

C5_Witness ==
    /\ LastIs("update")
    /\ NoReissue
    /\ Cardinality(Completed) = 3
    /\ \E a, b \in Arms : a # b /\ Count(a) > 0 /\ Count(b) > 0

\* C6: narms = 2, rho = 1, Q0 = +infinity: play(1) returns a; after
\* update(a, 1), play(2) returns the other arm b; after update(b, 0), play(3)
\* returns a.
C6_EndToEndScenario ==
    LET Upto4 == /\ live /\ narms = 2 /\ rho = 1 /\ Q0 = PosInf
                 /\ Len(trace) >= 4
                 /\ trace[2].op = "play" /\ trace[2].arg = 1
                 /\ trace[3].op = "update" /\ trace[3].reward = 1
                 /\ trace[4].op = "play" /\ trace[4].arg = 2
        Upto6 == /\ Upto4
                 /\ Len(trace) >= 6
                 /\ trace[5].op = "update" /\ trace[5].reward = 0
                 /\ trace[6].op = "play" /\ trace[6].arg = 3
    IN /\ Upto4 => /\ trace[2].ret \in {1, 2}
                   /\ trace[4].outcome = "ok"
                   /\ trace[4].ret = 3 - trace[2].ret
       /\ Upto6 => /\ trace[6].outcome = "ok"
                   /\ trace[6].ret = trace[2].ret

\* C7: right after construction every arm's score and mean reward are Q0, no
\* arm has a pull, and the selection history and the reward log are empty.
C7_ConstructedState ==
    (LastIs("init") /\ Last.outcome = "ok") =>
        /\ \A a \in Arms : Q[a] = Q0 /\ Q_mu[a] = Q0 /\ Count(a) = 0
        /\ arm_at_t = Empty
        /\ reward_at_t = <<>>

\* Whether call i of the trace is a play of a round already in arm_at_t.
IsReissue(i) ==
    /\ trace[i].op = "play"
    /\ \E j \in 1 .. (i - 1) :
          trace[j].op = "play" /\ trace[j].outcome = "ok" /\ trace[j].arg = trace[i].arg

\* After the first i calls: the pulls of 0-indexed arm a returned by play and
\* not yet matched by a completed update of that arm.
RECURSIVE Unmatched(_, _)
Unmatched(a, i) ==
    IF i = 0 THEN 0
    ELSE LET c == trace[i]
             prev == Unmatched(a, i - 1)
         IN IF c.op = "play" /\ c.outcome = "ok" /\ c.ret = a + 1 THEN prev + 1
            ELSE IF c.op = "update" /\ c.outcome = "ok" /\ c.arg = a + 1 /\ prev > 0
                 THEN prev - 1
            ELSE prev

\* The same, counting only the pulls made since the last play call that
\* re-issued a round (the pull of that call included).
RECURSIVE Owed(_, _)
Owed(a, i) ==
    IF i = 0 THEN 0
    ELSE LET c == trace[i]
             prev == IF IsReissue(i) THEN 0 ELSE Owed(a, i - 1)
         IN IF c.op = "play" /\ c.outcome = "ok" /\ c.ret = a + 1 THEN prev + 1
            ELSE IF c.op = "update" /\ c.outcome = "ok" /\ c.arg = a + 1 /\ prev > 0
                 THEN prev - 1
            ELSE prev

\* C8 (as stated): whenever update may be called for an arm returned by an
\* earlier play whose pull no update has matched yet, pullCount[arm] >= 1,
\* also when a play of a new or re-issued round came in between.
C8_UnmatchedPullIsCounted ==
    live => \A a \in Arms : Unmatched(a, Len(trace)) > 0 => Count(a) >= 1

\* C8 (amended): whenever update may be called for an arm returned by an
\* earlier play whose pull no update has matched yet, and no play call has
\* re-issued a round since that play, pullCount[arm] >= 1; plays of new
\* rounds may have come in between.
C8_OwedPullIsCounted ==
    live => \A a \in Arms : Owed(a, Len(trace)) > 0 => Count(a) >= 1

C8_Witness ==
    /\ Len(trace) >= 3
    /\ LastIs("update") /\ Last.outcome = "ok"
    /\ Owed(Last.arg - 1, Len(trace) - 1) > 0
    /\ trace[Len(trace) - 1].op = "play"
    /\ trace[Len(trace) - 1].outcome = "ok"
    /\ trace[Len(trace) - 1].ret # Last.arg

\* C9: a call that fails leaves every field of the selector as it was.
C9_FailedCallChangesNothing ==
    [][(ValidArgs /\ trace' # trace /\ trace'[Len(trace')].outcome # "ok")
          => UNCHANGED fields]_vars

\* C10: update with arm < 1 or arm > narms ends in an error and never
\* completes normally: IndexError when the 0-indexed arm is outside the numpy
\* index range [-narms, narms), KeyError for the other arms below 1.
C10_OutOfRangeArmFails ==
    (live /\ LastIs("update") /\ Last.arg \notin 1 .. narms) =>
        /\ Last.outcome # "ok"
        /\ Last.outcome =
              IF Last.arg > narms \/ Last.arg <= -narms THEN "IndexError" ELSE "KeyError"

C10_Witness ==
    /\ live /\ narms >= 1 /\ num_times_arm # Empty
    /\ LastIs("update") /\ Last.arg = 0 /\ Last.outcome = "KeyError"

\* C11: construction with narms <= 0 or rho <= 0 ends in an error and yields
\* no selector, so no selector that play or update can be called on has
\* narms <= 0 or rho <= 0.
C11_InvalidConstructionFails ==
    /\ (LastIs("init") /\ Last.arg <= 0) => Last.outcome # "ok"
    /\ live => (narms >= 1 /\ rho > 0)

\* C12: update for an arm in [1, narms] whose pullCount is 0 at call time
\* (never chosen, or brought back to 0 by a re-issued round) ends in an error
\* and never completes normally.  update leaves the counts alone, so the
\* count at call time is the count after the call.
NoFailedPlay == \A i \in PlayCalls : trace[i].outcome = "ok"

C12_ZeroCountUpdateFails ==
    (ValidArgs /\ NoFailedPlay /\ LastIs("update")
        /\ Last.arg \in 1 .. narms /\ Count(Last.arg - 1) = 0)
    => Last.outcome # "ok"

\* C13: pullCount[arm] >= 0 for every arm in every reachable state.
C13_CountsNeverNegative ==
    live => \A a \in Arms : Count(a) >= 0

\* C14: a play call, of a fresh or a re-issued round, leaves meanReward,
\* score and the reward log as they were.
C14_PlayFrame ==
    [][(trace' # trace /\ trace'[Len(trace')].op = "play")
          => (Q_mu' = Q_mu /\ Q' = Q /\ reward_at_t' = reward_at_t)]_vars

C14_Witness ==
    /\ LastIs("play") /\ Last.outcome = "ok"
    /\ IsReissue(Len(trace))
    /\ reward_at_t # <<>>
    /\ \E a \in Arms : Q[a] # Fin(0, 1)

\* C15: after every update call that completes, every arm a with
\* pullCount[a] > 0 has score[a] = meanReward[a] + sqrt(rho * log10(N + 1) /
\* pullCount[a]), N the number of rounds in selectionHistory, and the score
\* of every arm with pullCount 0 is what it was before the call.
C15_GlobalRescore ==
    [][(trace' # trace /\ trace'[Len(trace')].op = "update"
           /\ trace'[Len(trace')].outcome = "ok")
          => \A a \in Arms :
                /\ Count(a) > 0 =>
                      Q'[a] = Score(Q_mu'[a], rho, Cardinality(DOMAIN arm_at_t'),
                                    num_times_arm'[a])
                /\ Count(a) = 0 => Q'[a] = Q[a]]_vars

C15_Witness ==
    /\ LastIs("update") /\ Last.outcome = "ok" /\ rho > 0
    /\ \E a, b \in Arms :
          /\ a # b /\ Last.arg = a + 1
          /\ Count(a) > 0 /\ Count(b) > 0
          /\ Q[a].k = "fin" /\ Q[b].k = "fin" /\ Q[b].b > 0

\* The score every arm is given at construction (np.zeros, ucb.py:52).
ConstructedScore == Fin(0, 1)

\* C16: in every reachable state an arm whose pullCount is 0 holds the score
\* it was given at construction.
C16_ZeroCountKeepsConstructedScore ==
    (ValidArgs /\ NoFailedPlay) =>
        \A a \in Arms : Count(a) = 0 => Q[a] = ConstructedScore

\* C17 (as stated): whenever a protocol run, rounds possibly re-issued, has
\* recomputed the scores, the size of selectionHistory is the length of the
\* reward log.
C17_HistorySizeIsLogLength ==
    (live /\ LastIs("update") /\ Last.outcome = "ok") =>
        Cardinality(DOMAIN arm_at_t) = Len(reward_at_t)

\* C17 (amended): the same for protocol runs in which no round number was
\* played twice.
C17_HistorySizeIsLogLengthFreshRounds ==
    (live /\ LastIs("update") /\ Last.outcome = "ok" /\ NoReissue) =>
        Cardinality(DOMAIN arm_at_t) = Len(reward_at_t)

C17_Witness ==
    /\ LastIs("update") /\ Last.outcome = "ok" /\ NoReissue
    /\ Len(reward_at_t) = 2
    /\ Cardinality(DOMAIN arm_at_t) = 2

\* The mean of all rewards passed to the completed updates of arm a.
MeanOfUpdates(a) == Norm(RewardSum(UpdatesOf(a)), Cardinality(UpdatesOf(a)))

C19_UpdateFrame ==
    [][(trace' # trace /\ trace'[Len(trace')].op = "update"
           /\ trace'[Len(trace')].outcome = "ok")
          => /\ num_times_arm' = num_times_arm
             /\ arm_at_t' = arm_at_t
             /\ \A a \in Arms : a # trace'[Len(trace')].arg - 1 => Q_mu'[a] = Q_mu[a]
             /\ reward_at_t' = Append(reward_at_t, trace'[Len(trace')].reward)]_vars

C19_Witness ==
    /\ LastIs("update") /\ Last.outcome = "ok"
    /\ narms = 2
    /\ Q_mu[Last.arg - 1] # Q0
    /\ \E a \in Arms : a # Last.arg - 1 /\ Q_mu[a] = Q0
====
